---- MODULE Spec2Model ----
(***************************************************************************)
(* M5WiFiDebugger: the access-point mode controller, the client registry   *)
(* with MAC blocking, the packet-capture session and the honeypot log, as  *)
(* implemented by the second sketch of src/unnamed/part_000 (lines 2218 to *)
(* 5828) together with the Honeypot class of src/unnamed/part_004.         *)
(***************************************************************************)
EXTENDS Integers, Sequences, FiniteSets, TLC

\* ------------------------------------------------------------------------
\* Program constants
\* ------------------------------------------------------------------------
AP_MODE_OFF == 0
AP_MODE_NORMAL == 1
AP_MODE_REPEATER == 2
AP_MODE_HIDDEN == 3
AP_MODE_HONEYPOT == 4
AP_MODE_ITEMS_COUNT == 6
MAX_PACKET_BUFFER == 20
MAX_HONEYPOT_CONNECTIONS == 10
MIN_CHANNEL == 1
MAX_CHANNEL == 13
JSON_DOC_CAPACITY == 4096
JSON_SLOT_BYTES == 16
AP_SUBNET == 4
REPEATER_SUBNET == 5

APModes == AP_MODE_OFF .. AP_MODE_HONEYPOT

\* ------------------------------------------------------------------------
\* Bounds of the model
\* ------------------------------------------------------------------------
NumMacs == 2
MaxMillis == 3
MaxBlocked == 2
MaxFrames == 22
MaxRequests == 12

MACs == 1 .. NumMacs
NoFile == [exists |-> FALSE]

\* The ssid values a request can carry: in range, empty, 34 bytes long.
LongSsid == "0123456789012345678901234567890123"
SsidInputs == {"Test", "", LongSsid}

\* An ssid longer than the JSON document of saveConfiguration (4352 bytes),
\* and one of 4000 bytes, which fits in it but leaves no room for all of the
\* members that follow.
Twice(s) == s \o s
HugeSsid == Twice(Twice(Twice(Twice(Twice(Twice(Twice(LongSsid)))))))
Ssid32 == "0123456789abcdef0123456789abcdef"
Ssid128 == Twice(Twice(Ssid32))
Ssid1024 == Twice(Twice(Twice(Ssid128)))
FillingSsid ==
  Twice(Ssid1024) \o Ssid1024 \o Twice(Twice(Ssid128)) \o Twice(Ssid128) \o Ssid128 \o Ssid32

\* The network the station interface is connected to when an uplink exists.
UplinkNet == [ssid |-> "Home", password |-> "homepass1", channel |-> 11, subnet |-> 1]

\* The subnets 192.168.n.0/24 a network of the station interface can be on.
HomeSubnet == UplinkNet.subnet
UplinkSubnets == {HomeSubnet, AP_SUBNET, REPEATER_SUBNET}

VARIABLES
  apConfig,              \* APConfig apConfig
  configFile,            \* /config.json on LittleFS, or NoFile
  wifi,                  \* the radio driver: mode, station status, soft AP
  honeypot,              \* Honeypot honeypot (ssid, channel, log, routes)
  stations,              \* the driver's station table (MACs, in table order)
  apClients,             \* std::vector<APClient> apClients
  blockedMACs,           \* std::vector<String> blockedMACs
  blockedFile,           \* /blocked_macs.json on LittleFS, or NoFile
  packetBuffer,          \* std::vector<SniffedPacket> packetBuffer
  isSniffing,            \* bool isSniffing
  currentSniffingClient, \* int currentSniffingClient
  currentSniffingMAC,    \* uint8_t* currentSniffingMAC
  promiscuous,           \* esp_wifi_set_promiscuous state of the driver
  selectedAPUser,        \* int selectedAPUser
  blockRequested,        \* the address last asked to be blocked, 0: none (history)
  millis,                \* millis() clock, advanced by stamped events
  last                   \* the last operation and what it did (history)

ctlVars == <<apConfig, configFile, wifi, honeypot>>
regVars == <<stations, apClients, blockedMACs, blockedFile, selectedAPUser, blockRequested>>
capVars == <<packetBuffer, isSniffing, currentSniffingClient, currentSniffingMAC, promiscuous>>
vars == <<apConfig, configFile, wifi, honeypot, stations, apClients, blockedMACs,
          blockedFile, packetBuffer, isSniffing, currentSniffingClient,
          currentSniffingMAC, promiscuous, selectedAPUser, blockRequested, millis,
          last>>

\* ------------------------------------------------------------------------
\* Helpers on sequences
\* ------------------------------------------------------------------------
Range(s) == {s[i] : i \in 1 .. Len(s)}

RemoveAt(s, i) == SubSeq(s, 1, i - 1) \o SubSeq(s, i + 1, Len(s))

\* Index of the first element equal to x, 0 when there is none.
IndexOf(s, x) ==
  IF \E i \in 1 .. Len(s) : s[i] = x
    THEN CHOOSE i \in 1 .. Len(s) : s[i] = x /\ \A j \in 1 .. i - 1 : s[j] # x
    ELSE 0

\* vector::erase of the first element equal to x (the loops break after it).
EraseFirst(s, x) == IF IndexOf(s, x) = 0 THEN s ELSE RemoveAt(s, IndexOf(s, x))

\* ------------------------------------------------------------------------
\* MAC addresses and their text form
\* ------------------------------------------------------------------------
\* sprintf("%02X:%02X:...") of the six bytes: upper-case hexadecimal.
FormatMAC(m) == <<"upper", m>>

\* The same address written with lower-case hexadecimal digits.
LowerMAC(m) == <<"lower", m>>

\* The address a MAC string denotes (hexadecimal digits of either case).
AddressOf(str) == str[2]

\* The address the AP's DHCP server leases to station m, as text.
IpOf(m) == 100 + m

\* ------------------------------------------------------------------------
\* The radio driver (WiFi.*), as the sketch uses it
\* ------------------------------------------------------------------------
\* wifi.mode   : WiFi.getMode()
\* wifi.uplink : WiFi.status() == WL_CONNECTED
\* wifi.net    : the subnet of the network the station interface joined last
\* wifi.ap     : the soft-AP configuration the last successful softAP() set
ApUp(w) == w.mode \in {"AP", "AP_STA"}

\* WiFi.mode(m): AP-only operation stops the station interface, and with it
\* the uplink.
WiFiMode(w, m) == [w EXCEPT !.mode = m, !.uplink = IF m = "AP" THEN FALSE ELSE @]

\* WiFi.softAPdisconnect(true): the AP interface is switched off.
SoftAPdisconnect(w) ==
  [w EXCEPT !.mode = IF @ = "AP_STA" THEN "STA" ELSE IF @ = "AP" THEN "NULL" ELSE @]

\* WiFi.softAP(ssid, password, channel, hidden); ok is the driver's result.
\* The call enables the AP interface first; a failed call configures nothing.
SoftAP(w, ssid, password, channel, hidden, subnet, ok) ==
  LET on == [w EXCEPT !.mode = IF @ \in {"STA", "AP_STA"} THEN "AP_STA" ELSE "AP"]
  IN IF ok
       THEN [on EXCEPT !.ap = [ssid |-> ssid, password |-> password,
                               channel |-> channel, hidden |-> hidden,
                               subnet |-> subnet]]
       ELSE on

\* ------------------------------------------------------------------------
\* Honeypot (src/unnamed/part_004)
\* ------------------------------------------------------------------------
HoneypotSetSSID(hp, newSSID) == [hp EXCEPT !.ssid = newSSID]

HoneypotSetChannel(hp, newChannel) ==
  IF newChannel >= MIN_CHANNEL /\ newChannel <= MAX_CHANNEL
    THEN [hp EXCEPT !.channel = newChannel]
    ELSE hp

\* Honeypot::begin, the Honeypot's part: the log is reset and the four
\* handlers are registered on the shared server.
HoneypotBegin(hp) == [hp EXCEPT !.connections = <<>>, !.routes = TRUE]

\* Honeypot::begin, the radio's part: an open AP on the Honeypot's own ssid
\* and channel; the result of softAP is not looked at.
HoneypotBeginRadio(w, hp, ok) ==
  SoftAP(WiFiMode(w, "AP"), hp.ssid, "", hp.channel, FALSE, AP_SUBNET, ok)

\* The store without the shift of a full array.
LogConnectionNoShift(conns, rec) == Append(conns, rec)

\* Honeypot::logConnection: shift out the oldest record when the array is
\* full, then store the new record at connectionCount.
LogConnection(conns, rec) ==
  IF Len(conns) >= MAX_HONEYPOT_CONNECTIONS
    THEN Append(SubSeq(conns, 2, MAX_HONEYPOT_CONNECTIONS), rec)
    ELSE Append(conns, rec)

\* ------------------------------------------------------------------------
\* Persistence of the AP configuration
\* ------------------------------------------------------------------------
\* The members of the JSON object: a member that could not be added is
\* absent, a string member whose text could not be copied is null.
JsonString(s) == [absent |-> FALSE, null |-> FALSE, str |-> s]
JsonNull == [absent |-> FALSE, null |-> TRUE, str |-> ""]
JsonNoString == [absent |-> TRUE, null |-> TRUE, str |-> ""]
JsonInt(n) == [absent |-> FALSE, int |-> n]
JsonNoInt == [absent |-> TRUE, int |-> 0]
JsonBool(b) == [absent |-> FALSE, bool |-> b]
JsonNoBool == [absent |-> TRUE, bool |-> FALSE]

\* The document of saveConfiguration is a pool of JSON_DOC_CAPACITY bytes
\* that does not grow.  Adding a member takes a slot of JSON_SLOT_BYTES from
\* it, a String value is copied into it with its terminator; what does not
\* fit in the bytes left is silently not stored.  used: the bytes taken so
\* far.
SlotFits(used) == used + JSON_SLOT_BYTES <= JSON_DOC_CAPACITY
AfterSlot(used) == IF SlotFits(used) THEN used + JSON_SLOT_BYTES ELSE used
TextFits(s, used) == SlotFits(used) /\ AfterSlot(used) + Len(s) + 1 <= JSON_DOC_CAPACITY
AfterText(s, used) == IF TextFits(s, used) THEN AfterSlot(used) + Len(s) + 1 ELSE AfterSlot(used)

JsonStore(s, used) ==
  IF ~SlotFits(used) THEN JsonNoString
  ELSE IF TextFits(s, used) THEN JsonString(s) ELSE JsonNull

\* variant.as<String>(): the string, or for a null or absent member the
\* JSON text of null.
JsonAsString(v) == IF v.null THEN "null" ELSE v.str

\* saveConfiguration: the JSON document written to /config.json; the members
\* are added in the order mode, ssid, password, hidden, channel, after the
\* member "ap" of the root and the member mode.
ConfigJson(cfg) ==
  LET atSsid == AfterSlot(AfterSlot(0))
      atPassword == AfterText(cfg.ssid, atSsid)
      atHidden == AfterText(cfg.password, atPassword)
      atChannel == AfterSlot(atHidden)
  IN [exists |-> TRUE,
      ap |-> [mode |-> cfg.mode,
              ssid |-> JsonStore(cfg.ssid, atSsid),
              password |-> JsonStore(cfg.password, atPassword),
              hidden |-> IF SlotFits(atHidden) THEN JsonBool(cfg.hidden) ELSE JsonNoBool,
              channel |-> IF SlotFits(atChannel) THEN JsonInt(cfg.channel) ELSE JsonNoInt]]

\* A save whose failed open truncates the record that was there.
SaveConfigurationTruncating(file, cfg, writeOk) == IF writeOk THEN ConfigJson(cfg) ELSE NoFile

\* saveConfiguration: a failed open leaves the file as it was.
SaveConfiguration(file, cfg, writeOk) == IF writeOk THEN ConfigJson(cfg) ELSE file

\* The load without the returns for a missing file: every member is read
\* from an empty document.
LoadConfigurationUnchecked(file, cfg) ==
  IF ~file.exists
    THEN [mode |-> 0, ssid |-> JsonAsString(JsonNoString),
          password |-> JsonAsString(JsonNoString),
          hidden |-> JsonNoBool.bool, channel |-> JsonNoInt.int]
    ELSE [mode |-> file.ap.mode, ssid |-> JsonAsString(file.ap.ssid),
          password |-> JsonAsString(file.ap.password),
          hidden |-> file.ap.hidden.bool, channel |-> file.ap.channel.int]

\* loadConfiguration: a missing file leaves the defaults; the fields are
\* taken as they are, without range checks; as<int>() of an absent member
\* is 0 and as<bool>() of one is false.
LoadConfiguration(file, cfg) ==
  IF ~file.exists
    THEN cfg
    ELSE [mode |-> file.ap.mode, ssid |-> JsonAsString(file.ap.ssid),
          password |-> JsonAsString(file.ap.password),
          hidden |-> file.ap.hidden.bool, channel |-> file.ap.channel.int]

DefaultAPConfig ==
  [mode |-> AP_MODE_OFF, ssid |-> "M5StickDebug", password |-> "12345678",
   hidden |-> FALSE, channel |-> 1]

\* ------------------------------------------------------------------------
\* updateAccessPointMode
\* ------------------------------------------------------------------------
\* Each case yields the configuration, radio and honeypot it leaves behind,
\* whether it ran on to saveConfiguration (saved), what became of the AP
\* bring-up it attempted (brought) and whether it called the driver (drv).
Outcome(cfg, w, hp, saved, brought, drv) ==
  [cfg |-> cfg, wifi |-> w, hp |-> hp, saved |-> saved, brought |-> brought, drv |-> drv]

Brought(ok) == IF ok THEN "ok" ELSE "failed"

\* case AP_MODE_OFF
UpdateOff(cfg, w, hp) ==
  IF ApUp(w)
    THEN Outcome(cfg, WiFiMode(SoftAPdisconnect(w), "STA"), hp, TRUE, "none", TRUE)
    ELSE Outcome(cfg, w, hp, TRUE, "none", FALSE)

\* case AP_MODE_NORMAL: with an uplink a failed softAP returns at once, the
\* mode left as requested; without one the result of softAP is ignored.
UpdateNormal(cfg, w, hp, ok) ==
  IF w.uplink
    THEN Outcome(cfg,
                 SoftAP(WiFiMode(w, "AP_STA"), cfg.ssid, cfg.password, cfg.channel,
                        FALSE, AP_SUBNET, ok),
                 hp, ok, Brought(ok), TRUE)
    ELSE Outcome(cfg,
                 SoftAP(WiFiMode(w, "AP"), cfg.ssid, cfg.password, cfg.channel,
                        FALSE, AP_SUBNET, ok),
                 hp, TRUE, Brought(ok), TRUE)

\* case AP_MODE_HIDDEN: the result of softAP is ignored on both branches.
UpdateHidden(cfg, w, hp, ok) ==
  Outcome(cfg,
          SoftAP(WiFiMode(w, IF w.uplink THEN "AP_STA" ELSE "AP"), cfg.ssid,
                 cfg.password, cfg.channel, TRUE, AP_SUBNET, ok),
          hp, TRUE, Brought(ok), TRUE)

\* The mode the Repeater case writes when its softAP fails.
RepeaterFailMode == AP_MODE_NORMAL

\* case AP_MODE_REPEATER without an uplink: a message is printed and the
\* function returns; nothing is changed and nothing is saved.
RepeaterNoUplink(cfg, w, hp) == Outcome(cfg, w, hp, FALSE, "nouplink", FALSE)

\* case AP_MODE_REPEATER: with an uplink the AP mirrors the connected network
\* on its own subnet.
UpdateRepeater(cfg, w, hp, ok) ==
  IF w.uplink
    THEN Outcome(IF ok THEN cfg ELSE [cfg EXCEPT !.mode = RepeaterFailMode],
                 SoftAP(WiFiMode(w, "AP_STA"), UplinkNet.ssid, UplinkNet.password,
                        UplinkNet.channel, FALSE, REPEATER_SUBNET, ok),
                 hp, ok, Brought(ok), TRUE)
    ELSE RepeaterNoUplink(cfg, w, hp)

\* case AP_MODE_HONEYPOT
UpdateHoneypot(cfg, w, hp, ok) ==
  LET named == HoneypotSetChannel(HoneypotSetSSID(hp, cfg.ssid), cfg.channel)
  IN Outcome(cfg, HoneypotBeginRadio(w, named, ok), HoneypotBegin(named),
             TRUE, Brought(ok), TRUE)

UpdateAccessPointMode(cfg, w, hp, ok) ==
  CASE cfg.mode = AP_MODE_OFF -> UpdateOff(cfg, w, hp)
    [] cfg.mode = AP_MODE_NORMAL -> UpdateNormal(cfg, w, hp, ok)
    [] cfg.mode = AP_MODE_HIDDEN -> UpdateHidden(cfg, w, hp, ok)
    [] cfg.mode = AP_MODE_REPEATER -> UpdateRepeater(cfg, w, hp, ok)
    [] cfg.mode = AP_MODE_HONEYPOT -> UpdateHoneypot(cfg, w, hp, ok)
    [] OTHER -> Outcome(cfg, w, hp, TRUE, "none", FALSE)

\* ------------------------------------------------------------------------
\* POST /ap/config: the parameters are applied one by one, an out-of-range
\* mode or channel is skipped, ssid and password are taken as they come.
\* ------------------------------------------------------------------------
NoParam == [has |-> FALSE]
Param(v) == [has |-> TRUE, value |-> v]
Params(S) == {NoParam} \cup {Param(v) : v \in S}

\* The range check with its upper bound off by one.
ApplyModeShort(cfg, mode) ==
  IF mode.has /\ mode.value >= AP_MODE_OFF /\ mode.value < AP_MODE_HONEYPOT
    THEN [cfg EXCEPT !.mode = mode.value]
    ELSE cfg

ApplyMode(cfg, mode) ==
  IF mode.has /\ mode.value >= AP_MODE_OFF /\ mode.value <= AP_MODE_HONEYPOT
    THEN [cfg EXCEPT !.mode = mode.value]
    ELSE cfg

ApplySsid(cfg, ssid) == IF ssid.has THEN [cfg EXCEPT !.ssid = ssid.value] ELSE cfg

ApplyPassword(cfg, password) ==
  IF password.has THEN [cfg EXCEPT !.password = password.value] ELSE cfg

ApplyChannel(cfg, channel) ==
  IF channel.has /\ channel.value >= MIN_CHANNEL /\ channel.value <= MAX_CHANNEL
    THEN [cfg EXCEPT !.channel = channel.value]
    ELSE cfg

ApplyParams(cfg, mode, ssid, password, channel) ==
  ApplyChannel(ApplyPassword(ApplySsid(ApplyMode(cfg, mode), ssid), password), channel)

\* What the data model asks of a configuration request.
ValidSsid(ssid) == ssid.has => (Len(ssid.value) >= 1 /\ Len(ssid.value) <= 32)
ValidPassword(pw) ==
  pw.has => (Len(pw.value) = 0 \/ (Len(pw.value) >= 8 /\ Len(pw.value) <= 63))
ValidChannel(ch) == ch.has => (ch.value >= MIN_CHANNEL /\ ch.value <= MAX_CHANNEL)

\* ------------------------------------------------------------------------
\* The state after setup() on a device with nothing on its flash
\* ------------------------------------------------------------------------
NullPtr == [slot |-> -1, mac |-> 0, dangling |-> FALSE]

NewHoneypot == [ssid |-> "HoneyPot", channel |-> 1, connections |-> <<>>, routes |-> FALSE]

DriverDefaultAp ==
  [ssid |-> "ESP", password |-> "", channel |-> 1, hidden |-> FALSE, subnet |-> AP_SUBNET]

\* The record of the last operation: which one, the mode it asked for (-1:
\* none), what updateAccessPointMode did, whether a file was written, the
\* HTTP status sent (0: not an HTTP request), whether the request met the
\* data model, the station address it was about (0: none), and what a read
\* of the capture buffer saw.
NoRead == [before |-> <<>>, after |-> <<>>, got |-> <<>>]

Done(op, req, out, written, code, valid, target) ==
  [op |-> op, req |-> req, brought |-> out.brought, saved |-> out.saved,
   drv |-> out.drv, written |-> written, code |-> code, valid |-> valid,
   target |-> target, seen |-> NoRead]

NoOutcome == [brought |-> "none", saved |-> FALSE, drv |-> FALSE]

Init ==
  /\ apConfig = DefaultAPConfig
  /\ configFile = NoFile
  /\ wifi = [mode |-> "STA", uplink |-> FALSE, net |-> HomeSubnet, ap |-> DriverDefaultAp]
  /\ honeypot = NewHoneypot
  /\ stations = <<>>
  /\ apClients = <<>>
  /\ blockedMACs = <<>>
  /\ blockedFile = NoFile
  /\ packetBuffer = <<>>
  /\ isSniffing = FALSE
  /\ currentSniffingClient = -1
  /\ currentSniffingMAC = NullPtr
  /\ promiscuous = FALSE
  /\ selectedAPUser = -1
  /\ blockRequested = 0
  /\ millis = 0
  /\ last = Done("setup", -1, NoOutcome, FALSE, 0, TRUE, 0)

\* ------------------------------------------------------------------------
\* Mode changes
\* ------------------------------------------------------------------------
\* The stations of the AP stay associated only while the AP stays up with
\* the configuration it had.
StationsAfter(w) == IF ApUp(wifi) /\ ApUp(w) /\ w.ap = wifi.ap THEN stations ELSE <<>>

\* One call of updateAccessPointMode on configuration cfg, saveConfiguration
\* included, made by operation op on a request for mode req.
RunUpdate(op, req, cfg, apOk, writeOk, code, valid) ==
  \E out \in {UpdateAccessPointMode(cfg, wifi, honeypot, apOk)} :
    /\ apConfig' = out.cfg
    /\ wifi' = out.wifi
    /\ honeypot' = out.hp
    /\ configFile' = IF out.saved
                       THEN SaveConfiguration(configFile, out.cfg, writeOk)
                       ELSE configFile
    /\ stations' = StationsAfter(out.wifi)
    /\ last' = Done(op, req, out, out.saved /\ writeOk, code, valid, 0)

\* POST /ap/config; the handler always answers 200.
ApConfigPost(modes, ssids, passwords, channels, oks, writes) ==
  \E mode \in Params(modes), ssid \in Params(ssids), password \in Params(passwords),
     channel \in Params(channels), apOk \in oks, writeOk \in writes :
    /\ RunUpdate("config", IF mode.has THEN mode.value ELSE -1,
                 ApplyParams(apConfig, mode, ssid, password, channel), apOk, writeOk, 200,
                 ValidSsid(ssid) /\ ValidPassword(password) /\ ValidChannel(channel))
    /\ UNCHANGED <<apClients, blockedMACs, blockedFile, selectedAPUser, blockRequested, capVars, millis>>

\* handleMenuAction, MENU_AP_MODE_SELECT: items 0..4 are the modes, the last
\* item is Back.
MenuModeSelect(oks, writes) ==
  \E selectedMenuItem \in 0 .. AP_MODE_ITEMS_COUNT - 1, apOk \in oks, writeOk \in writes :
    IF selectedMenuItem >= 0 /\ selectedMenuItem < AP_MODE_ITEMS_COUNT - 1
      THEN /\ RunUpdate("menuMode", selectedMenuItem,
                        [apConfig EXCEPT !.mode = selectedMenuItem], apOk, writeOk, 0, TRUE)
           /\ UNCHANGED <<apClients, blockedMACs, blockedFile, selectedAPUser, blockRequested,
                          capVars, millis>>
      ELSE /\ last' = Done("menuBack", -1, NoOutcome, FALSE, 0, TRUE, 0)
           /\ UNCHANGED <<ctlVars, regVars, capVars, millis>>

\* GET /ap: the status read; the reported mode is apConfig.mode.
StatusMode == apConfig.mode

\* The check that re-runs the bring-up only when the AP interface is off.
LoopRepeaterCheckApOffOnly(oks, writes) ==
  /\ apConfig.mode = AP_MODE_REPEATER
  /\ wifi.uplink
  /\ wifi.mode = "NULL"
  /\ \E apOk \in oks, writeOk \in writes :
       RunUpdate("loopRepeater", AP_MODE_REPEATER, apConfig, apOk, writeOk, 0, TRUE)
  /\ UNCHANGED <<apClients, blockedMACs, blockedFile, selectedAPUser, blockRequested, capVars, millis>>

\* loop, the repeater check: with the uplink up and the radio no longer in
\* station+AP operation the bring-up is run again.
LoopRepeaterCheck(oks, writes) ==
  /\ apConfig.mode = AP_MODE_REPEATER
  /\ wifi.uplink
  /\ wifi.mode # "AP_STA"
  /\ \E apOk \in oks, writeOk \in writes :
       RunUpdate("loopRepeater", AP_MODE_REPEATER, apConfig, apOk, writeOk, 0, TRUE)
  /\ UNCHANGED <<apClients, blockedMACs, blockedFile, selectedAPUser, blockRequested, capVars, millis>>

\* loop, the repeater check without an uplink: WiFi.reconnect(), and
\* WiFi.begin on the first saved network when that fails.  The attempt joins
\* the network, or only enables the station interface, or does nothing.
LoopRepeaterReconnect(nets) ==
  /\ apConfig.mode = AP_MODE_REPEATER
  /\ ~wifi.uplink
  /\ \E net \in nets, res \in {"joined", "pending", "failed"} :
       wifi' = CASE res = "joined" ->
                      [wifi EXCEPT !.uplink = TRUE, !.net = net,
                                   !.mode = IF @ \in {"AP", "AP_STA"} THEN "AP_STA" ELSE "STA"]
                 [] res = "pending" ->
                      [wifi EXCEPT !.mode = IF @ \in {"AP", "AP_STA"} THEN "AP_STA" ELSE "STA"]
                 [] OTHER -> wifi
  /\ last' = Done("loopReconnect", AP_MODE_REPEATER, NoOutcome, FALSE, 0, TRUE, 0)
  /\ UNCHANGED <<apConfig, configFile, honeypot, regVars, capVars, millis>>

\* The station interface joins its network (POST /connect, WiFi.reconnect in
\* loop): WiFi.begin enables the station interface.
UplinkJoin(nets) ==
  /\ ~wifi.uplink
  /\ \E net \in nets :
       wifi' = [wifi EXCEPT !.uplink = TRUE, !.net = net,
                            !.mode = IF @ \in {"AP", "AP_STA"} THEN "AP_STA" ELSE "STA"]
  /\ last' = Done("uplink", -1, NoOutcome, FALSE, 0, TRUE, 0)
  /\ UNCHANGED <<apConfig, configFile, honeypot, regVars, capVars, millis>>

UplinkUp == UplinkJoin({HomeSubnet})

\* The uplink is lost (WiFi.status() != WL_CONNECTED).
UplinkDown ==
  /\ wifi.uplink
  /\ wifi' = [wifi EXCEPT !.uplink = FALSE]
  /\ last' = Done("uplink", -1, NoOutcome, FALSE, 0, TRUE, 0)
  /\ UNCHANGED <<apConfig, configFile, honeypot, regVars, capVars, millis>>

\* ------------------------------------------------------------------------
\* Honeypot requests
\* ------------------------------------------------------------------------
HoneypotPaths == {"/dashboard", "/login", "/other"}
Credentials == {"alice:1", "bob:2"}

\* The statuses with the failure given to the landing page instead.
HoneypotStatusSwapped(path) == IF path = "/dashboard" THEN 403 ELSE 200

\* The status each handler registered by Honeypot::begin sends.
HoneypotStatus(path) == IF path = "/login" THEN 403 ELSE 200

\* An inbound request for one of the paths Honeypot::begin registers.  Once
\* registered the handlers stay on the server; before that the path is
\* unknown to it.
HoneypotRequest(paths, limit) ==
  /\ millis < limit
  /\ \E path \in paths, data \in Credentials :
       IF honeypot.routes
         THEN /\ honeypot' = [honeypot EXCEPT !.connections =
                   LogConnection(@, [url |-> path, data |-> data, timestamp |-> millis])]
              /\ last' = Done("request", -1, NoOutcome, FALSE, HoneypotStatus(path), TRUE, 0)
         ELSE /\ honeypot' = honeypot
              /\ last' = Done("request", -1, NoOutcome, FALSE, 404, TRUE, 0)
  /\ millis' = millis + 1
  /\ UNCHANGED <<apConfig, configFile, wifi, regVars, capVars>>

\* ------------------------------------------------------------------------
\* Blocked MACs: lookup and persistence
\* ------------------------------------------------------------------------
IsMACBlocked(list, mac) == \E i \in 1 .. Len(list) : list[i] = FormatMAC(mac)

\* saveBlockedMACs: a failed open leaves the file as it was.
SaveBlockedMACs(file, list, writeOk) == IF writeOk THEN [exists |-> TRUE, blocked |-> list] ELSE file

\* loadBlockedMACs: a missing file leaves the list as it is.
LoadBlockedMACs(file, list) == IF ~file.exists THEN list ELSE file.blocked

\* ------------------------------------------------------------------------
\* setup(): a boot of the device on the flash contents left behind
\* ------------------------------------------------------------------------
Setup(ups, oks, writes) ==
  \E up \in ups, apOk \in oks, writeOk \in writes :
    \E cfg \in {LoadConfiguration(configFile, DefaultAPConfig)} :
      \E out \in {IF cfg.mode # AP_MODE_OFF
                    THEN UpdateAccessPointMode(cfg,
                           WiFiMode([mode |-> "STA", uplink |-> up, net |-> wifi.net, ap |-> wifi.ap], "AP"),
                           NewHoneypot, apOk)
                    ELSE Outcome(cfg, [mode |-> "STA", uplink |-> up, net |-> wifi.net, ap |-> wifi.ap],
                                 NewHoneypot, FALSE, "none", FALSE)} :
        /\ apConfig' = out.cfg
        /\ wifi' = out.wifi
        /\ honeypot' = out.hp
        /\ configFile' = IF out.saved
                           THEN SaveConfiguration(configFile, out.cfg, writeOk)
                           ELSE configFile
        /\ blockedMACs' = LoadBlockedMACs(blockedFile, <<>>)
        /\ stations' = <<>>
        /\ apClients' = <<>>
        /\ packetBuffer' = <<>>
        /\ isSniffing' = FALSE
        /\ currentSniffingClient' = -1
        /\ currentSniffingMAC' = NullPtr
        /\ promiscuous' = FALSE
        /\ selectedAPUser' = -1
        /\ blockRequested' = 0
        /\ millis' = 0
        /\ last' = Done("setup", cfg.mode, out, out.saved /\ writeOk, 0, TRUE, 0)
        /\ UNCHANGED blockedFile

\* ------------------------------------------------------------------------
\* The client registry
\* ------------------------------------------------------------------------
\* The APClient updateAPClients builds for one entry of the station table.
ClientOf(m, list) ==
  [ip |-> IpOf(m), mac |-> m, blocked |-> IsMACBlocked(list, m),
   totalBytes |-> 0, lastPacket |-> ""]

\* updateAPClients: the list is cleared and rebuilt from the station table.
UpdateAPClients(sts, list) ==
  IF Len(sts) = 0 THEN <<>> ELSE [i \in 1 .. Len(sts) |-> ClientOf(sts[i], list)]

\* Index (from 0) of the first client with this address, -1 when none has it.
ClientIndexByIp(clients, ip) ==
  IF \E i \in 1 .. Len(clients) : clients[i].ip = ip
    THEN (CHOOSE i \in 1 .. Len(clients) :
            clients[i].ip = ip /\ \A j \in 1 .. i - 1 : clients[j].ip # ip) - 1
    ELSE -1

\* A pointer into the element storage of apClients does not survive
\* apClients.clear().
AfterClear(ptr) == IF ptr.slot < 0 THEN ptr ELSE [ptr EXCEPT !.dangling = TRUE]

\* One call of updateAPClients.  Every blocked entry is sent a deauth under
\* the AID "index + 1"; the driver may or may not drop the station for it.
RefreshStep ==
  /\ apClients' = UpdateAPClients(stations, blockedMACs)
  /\ \E gone \in SUBSET {m \in Range(stations) : IsMACBlocked(blockedMACs, m)} :
       stations' = SelectSeq(stations, LAMBDA m : m \notin gone)
  /\ currentSniffingMAC' = AfterClear(currentSniffingMAC)

\* What a refresh did: the driver is called for a disconnect exactly when a
\* station of the table is found blocked.
RefreshOutcome ==
  [NoOutcome EXCEPT !.drv = \E m \in Range(stations) : IsMACBlocked(blockedMACs, m)]

\* GET /ap/users
GetApUsers ==
  /\ RefreshStep
  /\ last' = Done("refresh", -1, RefreshOutcome, FALSE, 200, TRUE, 0)
  /\ UNCHANGED <<ctlVars, blockedMACs, blockedFile, selectedAPUser, blockRequested, packetBuffer,
                 isSniffing, currentSniffingClient, promiscuous, millis>>

\* loop, once a second while the users list or a user's info is shown; also
\* handleMenuAction, MENU_AP_STATUS item Users.
LoopClientRefresh ==
  /\ RefreshStep
  /\ last' = Done("refresh", -1, RefreshOutcome, FALSE, 0, TRUE, 0)
  /\ UNCHANGED <<ctlVars, blockedMACs, blockedFile, selectedAPUser, blockRequested, packetBuffer,
                 isSniffing, currentSniffingClient, promiscuous, millis>>

\* The blocked list after a block request for the MAC string str that first
\* looks the string up.
BlockChecked(list, str) == IF \E i \in 1 .. Len(list) : list[i] = str THEN list ELSE Append(list, str)

\* The history of block requests: a block of address a makes a the address
\* asked for, an unblock of that address withdraws it.
AskBlock(block, a) == IF block THEN a ELSE IF blockRequested = a THEN 0 ELSE blockRequested

\* POST /ap/users/block: the client is looked up by its address in the
\* current list; the blocked list is changed in memory only.
PostUsersBlock(ips) ==
  \E ip \in ips, blocked \in BOOLEAN :
    LET idx == ClientIndexByIp(apClients, ip)
        macStr == FormatMAC(apClients[idx + 1].mac)
    IN IF idx >= 0
         THEN /\ blocked => Len(blockedMACs) < MaxBlocked
              /\ blockedMACs' = IF blocked THEN BlockChecked(blockedMACs, macStr)
                                           ELSE EraseFirst(blockedMACs, macStr)
              /\ apClients' = [apClients EXCEPT ![idx + 1].blocked = blocked]
              /\ last' = Done(IF blocked THEN "block" ELSE "unblock", -1, NoOutcome,
                              FALSE, 200, TRUE, apClients[idx + 1].mac)
              /\ blockRequested' = AskBlock(blocked, apClients[idx + 1].mac)
              /\ UNCHANGED <<ctlVars, stations, blockedFile, selectedAPUser, capVars, millis>>
         ELSE /\ last' = Done("notFound", -1, NoOutcome, FALSE, 404, TRUE, 0)
              /\ UNCHANGED <<ctlVars, regVars, capVars, millis>>

\* POST /ap/block-mac: the string is stored, or erased, as it was sent, and
\* the list is saved when it changed.
PostBlockMac(strings, writes) ==
  \E mac \in strings, block \in BOOLEAN, writeOk \in writes :
    LET list == IF block THEN BlockChecked(blockedMACs, mac) ELSE EraseFirst(blockedMACs, mac)
    IN /\ block => Len(blockedMACs) < MaxBlocked
       /\ blockedMACs' = list
       /\ blockedFile' = IF list # blockedMACs
                           THEN SaveBlockedMACs(blockedFile, list, writeOk)
                           ELSE blockedFile
       /\ last' = Done(IF block THEN "block" ELSE "unblock", -1, NoOutcome,
                       list # blockedMACs /\ writeOk, 200, TRUE, AddressOf(mac))
       /\ blockRequested' = AskBlock(block, AddressOf(mac))
       /\ UNCHANGED <<ctlVars, stations, apClients, selectedAPUser, capVars, millis>>

\* handleMenuAction, MENU_AP_USERS: an item of the list selects that user.
MenuSelectUser ==
  \E selectedMenuItem \in 0 .. NumMacs :
    /\ selectedAPUser' = IF selectedMenuItem < Len(apClients)
                           THEN selectedMenuItem ELSE selectedAPUser
    /\ last' = Done("menuUser", -1, NoOutcome, FALSE, 0, TRUE, 0)
    /\ UNCHANGED <<ctlVars, stations, apClients, blockedMACs, blockedFile, blockRequested,
                   capVars, millis>>

\* handleMenuAction, MENU_AP_USER_MENU item Block: the selected user's flag
\* decides between erase and push_back; the list is saved.
MenuBlockToggle(writes) ==
  \E writeOk \in writes :
    IF selectedAPUser >= 0 /\ selectedAPUser < Len(apClients)
      THEN LET c == apClients[selectedAPUser + 1]
               macStr == FormatMAC(c.mac)
               list == IF c.blocked THEN EraseFirst(blockedMACs, macStr)
                                    ELSE Append(blockedMACs, macStr)
           IN /\ ~c.blocked => Len(blockedMACs) < MaxBlocked
              /\ blockedMACs' = list
              /\ apClients' = [apClients EXCEPT ![selectedAPUser + 1].blocked = ~c.blocked]
              /\ blockedFile' = SaveBlockedMACs(blockedFile, list, writeOk)
              /\ last' = Done(IF c.blocked THEN "unblock" ELSE "block", -1, NoOutcome,
                              writeOk, 0, TRUE, c.mac)
              /\ blockRequested' = AskBlock(~c.blocked, c.mac)
              /\ UNCHANGED <<ctlVars, stations, selectedAPUser, capVars, millis>>
      ELSE /\ last' = Done("menuNoUser", -1, NoOutcome, FALSE, 0, TRUE, 0)
           /\ UNCHANGED <<ctlVars, regVars, capVars, millis>>

\* A station associates with the AP; onStationConnected runs.  For a blocked
\* MAC the hook calls esp_wifi_disconnect(), which disconnects the device's
\* own station interface from its uplink.
StationConnect ==
  \E m \in MACs :
    /\ ApUp(wifi)
    /\ m \notin Range(stations)
    /\ stations' = Append(stations, m)
    /\ wifi' = IF IsMACBlocked(blockedMACs, m) THEN [wifi EXCEPT !.uplink = FALSE] ELSE wifi
    /\ last' = Done("staConnected", -1, NoOutcome, FALSE, 0, TRUE, m)
    /\ UNCHANGED <<apConfig, configFile, honeypot, apClients, blockedMACs, blockedFile,
                   selectedAPUser, blockRequested, capVars, millis>>

\* A station leaves the AP.
StationLeave ==
  \E m \in Range(stations) :
    /\ stations' = SelectSeq(stations, LAMBDA x : x # m)
    /\ last' = Done("staLeft", -1, NoOutcome, FALSE, 0, TRUE, m)
    /\ UNCHANGED <<ctlVars, apClients, blockedMACs, blockedFile, selectedAPUser, blockRequested,
                   capVars, millis>>

\* ------------------------------------------------------------------------
\* The packet-capture session
\* ------------------------------------------------------------------------
\* startPacketSniffing(clientIndex): an index outside the list is ignored;
\* otherwise the callback is registered, promiscuous mode switched on and the
\* target set to the client's index and to a pointer to its mac field.
StartPacketSniffing(clientIndex) ==
  IF clientIndex >= 0 /\ clientIndex < Len(apClients)
    THEN /\ isSniffing' = TRUE
         /\ promiscuous' = TRUE
         /\ currentSniffingClient' = clientIndex
         /\ currentSniffingMAC' = [slot |-> clientIndex,
                                   mac |-> apClients[clientIndex + 1].mac,
                                   dangling |-> FALSE]
         /\ apClients' = [apClients EXCEPT ![clientIndex + 1].lastPacket = "sniffing"]
    ELSE UNCHANGED <<isSniffing, promiscuous, currentSniffingClient,
                     currentSniffingMAC, apClients>>

\* The stop without esp_wifi_set_promiscuous(false).
StopPacketSniffingHookLeft ==
  /\ isSniffing' = FALSE
  /\ currentSniffingClient' = -1
  /\ promiscuous' = promiscuous
  /\ UNCHANGED <<currentSniffingMAC, apClients>>

\* stopPacketSniffing: the pointer is left as it is.
StopPacketSniffing ==
  /\ isSniffing' = FALSE
  /\ currentSniffingClient' = -1
  /\ promiscuous' = FALSE
  /\ UNCHANGED <<currentSniffingMAC, apClients>>

\* POST /ap/users/sniff
PostUsersSniff(ips) ==
  \E ip \in ips, start \in BOOLEAN :
    LET clientIndex == ClientIndexByIp(apClients, ip)
    IN IF clientIndex >= 0
         THEN /\ IF start THEN StartPacketSniffing(clientIndex) ELSE StopPacketSniffing
              /\ last' = Done(IF start THEN "sniffStart" ELSE "sniffStop", -1, NoOutcome,
                              FALSE, 200, TRUE, apClients[clientIndex + 1].mac)
              /\ UNCHANGED <<ctlVars, stations, blockedMACs, blockedFile, selectedAPUser, blockRequested,
                             packetBuffer, millis>>
         ELSE /\ last' = Done("notFound", -1, NoOutcome, FALSE, 404, TRUE, 0)
              /\ UNCHANGED <<ctlVars, regVars, capVars, millis>>

\* handleMenuAction, MENU_AP_USER_SNIFF: item 0 starts or stops the session
\* for the selected user, item 1 goes back and stops a running session.  The
\* screen is entered from the menu of a user that was selected.
MenuSniff ==
  \E selectedMenuItem \in 0 .. 1 :
    /\ selectedAPUser >= 0
    /\ IF selectedMenuItem = 0
         THEN IF isSniffing THEN StopPacketSniffing ELSE StartPacketSniffing(selectedAPUser)
         ELSE IF isSniffing THEN StopPacketSniffing
                            ELSE UNCHANGED <<isSniffing, promiscuous, currentSniffingClient,
                                             currentSniffingMAC, apClients>>
    /\ last' = Done("menuSniff", -1, NoOutcome, FALSE, 0, TRUE, 0)
    /\ UNCHANGED <<ctlVars, stations, blockedMACs, blockedFile, selectedAPUser, blockRequested,
                   packetBuffer, millis>>

\* GET /ap/users/sniff/buffer: the records of packetBuffer, oldest first.
GetCapturedFrames == packetBuffer

\* The values a read through currentSniffingMAC can give: the client's MAC
\* while the element it points into is alive, anything once it is not.
PointedMACs(ptr) == IF ptr.dangling THEN MACs \cup {0} ELSE {ptr.mac}

\* The append without the erase of the oldest record.
PushPacketNoErase(buf, packet) == Append(buf, packet)

\* Append to packetBuffer, the oldest record erased first when it is full.
PushPacket(buf, packet) ==
  IF Len(buf) >= MAX_PACKET_BUFFER THEN Append(Tail(buf), packet) ELSE Append(buf, packet)

\* promiscuous_rx_callback for a frame sent by src.  The driver calls it
\* while promiscuous mode is on.
PromiscuousRx(srcs, types, limit) ==
  /\ promiscuous
  /\ millis < limit
  /\ \E src \in srcs, type \in types, target \in PointedMACs(currentSniffingMAC) :
       IF isSniffing /\ currentSniffingClient >= 0 /\ src = target
         THEN /\ packetBuffer' = PushPacket(packetBuffer,
                   [sourceMAC |-> FormatMAC(src), type |-> type, size |-> 1,
                    timestamp |-> millis])
              /\ apClients' = IF currentSniffingClient < Len(apClients)
                                THEN [apClients EXCEPT
                                        ![currentSniffingClient + 1].totalBytes = @ + 1,
                                        ![currentSniffingClient + 1].lastPacket = type]
                                ELSE apClients
              /\ millis' = millis + 1
              /\ last' = Done(IF currentSniffingClient < Len(apClients)
                                THEN "frame" ELSE "frameOutOfRange",
                              -1, NoOutcome, FALSE, 0, TRUE, src)
         ELSE /\ last' = Done("frameIgnored", -1, NoOutcome, FALSE, 0, TRUE, src)
              /\ UNCHANGED <<packetBuffer, apClients, millis>>
  /\ UNCHANGED <<ctlVars, stations, blockedMACs, blockedFile, selectedAPUser, blockRequested, isSniffing,
                 currentSniffingClient, currentSniffingMAC, promiscuous>>

\* What the range-for of GET /ap/users/sniff/buffer yields when the frame
\* callback runs after the loop has passed k records: the loop goes on, up to
\* the end it took at its start, over the storage as the callback left it.
TornRead(pre, post, k) == SubSeq(pre, 1, k) \o SubSeq(post, k + 1, Len(pre))

\* GET /ap/users/sniff/buffer.  The handler runs in the web server's task and
\* iterates packetBuffer itself, with no lock; the frame callback runs in the
\* radio's task and can run in the middle of the loop.  A reallocation by
\* push_back under the loop is left out here.
GetSniffBuffer(srcs, limit) ==
  \/ /\ last' = [Done("readBuffer", -1, NoOutcome, FALSE, 200, TRUE, 0) EXCEPT
                   !.seen = [before |-> packetBuffer, after |-> packetBuffer,
                             got |-> packetBuffer]]
     /\ UNCHANGED <<ctlVars, regVars, capVars, millis>>
  \/ /\ promiscuous
     /\ isSniffing
     /\ currentSniffingClient >= 0
     /\ millis < limit
     /\ \E src \in srcs, k \in 0 .. Len(packetBuffer) :
          /\ src \in PointedMACs(currentSniffingMAC)
          /\ packetBuffer' = PushPacket(packetBuffer,
                [sourceMAC |-> FormatMAC(src), type |-> "DATA", size |-> 1,
                 timestamp |-> millis])
          /\ apClients' = IF currentSniffingClient < Len(apClients)
                            THEN [apClients EXCEPT
                                    ![currentSniffingClient + 1].totalBytes = @ + 1,
                                    ![currentSniffingClient + 1].lastPacket = "DATA"]
                            ELSE apClients
          /\ last' = [Done("readBuffer", -1, NoOutcome, FALSE, 200, TRUE, src) EXCEPT
                        !.seen = [before |-> packetBuffer, after |-> packetBuffer',
                                  got |-> TornRead(packetBuffer, packetBuffer', k)]]
     /\ millis' = millis + 1
     /\ UNCHANGED <<ctlVars, stations, blockedMACs, blockedFile, selectedAPUser,
                    blockRequested, isSniffing, currentSniffingClient,
                    currentSniffingMAC, promiscuous>>

\* ------------------------------------------------------------------------
\* Specifications
\* ------------------------------------------------------------------------
ModeOps == {"config", "menuMode"}

\* A mode change ran to its end with the AP bring-up it needed.
Successful == last.saved /\ last.brought \in {"ok", "none"}

\* The mode controller: every mode, with and without an uplink, with the
\* driver's bring-up succeeding or failing.
Next ==
  \/ ApConfigPost(APModes \cup {5}, {}, {}, {1, 13}, BOOLEAN, {TRUE})
  \/ MenuModeSelect(BOOLEAN, {TRUE})
  \/ LoopRepeaterCheck(BOOLEAN, {TRUE})
  \/ UplinkUp
  \/ UplinkDown
  \/ Setup(BOOLEAN, BOOLEAN, {TRUE})

Spec == Init /\ [][Next]_vars

\* C1: after a mode change that completed successfully, asked for through
\* POST /ap/config or the AP-mode menu, the status read reports the mode
\* that was asked for, whatever the channel.
C1_SuccessfulModeIsReported ==
  (last.op \in ModeOps /\ last.req \in APModes /\ Successful) => StatusMode = last.req

C1_Witness ==
  /\ last.op = "config"
  /\ last.req = AP_MODE_REPEATER
  /\ Successful
  /\ StatusMode = AP_MODE_REPEATER
  /\ apConfig.channel = 13

\* C2: a request for Repeater made with no uplink leaves the reported mode
\* Normal, never Repeater, and a Normal AP up.
C2_RepeaterWithoutUplinkDegrades ==
  (last.op \in ModeOps /\ last.req = AP_MODE_REPEATER /\ last.brought = "nouplink")
    => (StatusMode = AP_MODE_NORMAL /\ ApUp(wifi) /\ wifi.ap.ssid = apConfig.ssid)

\* C3: a failed AP bring-up on the way to Normal or Hidden leaves the mode
\* Off and is answered with a failure, not with 200.
C3_FailedBringUpLeavesOff ==
  (last.op = "config" /\ last.req \in {AP_MODE_NORMAL, AP_MODE_HIDDEN}
     /\ last.brought = "failed")
    => (apConfig.mode = AP_MODE_OFF /\ last.code # 200)

\* C4: a failed sub-step of the Repeater bring-up with an uplink present
\* leaves the mode Off and no AP up.
C4_FailedRepeaterRevertsToOff ==
  (last.op \in ModeOps /\ last.req = AP_MODE_REPEATER /\ last.brought = "failed")
    => (apConfig.mode = AP_MODE_OFF /\ ~ApUp(wifi))

\* Persistence: mode changes whose write of /config.json can fail.
NextPersist ==
  \/ ApConfigPost(APModes, {"Test"}, {}, {}, BOOLEAN, BOOLEAN)
  \/ MenuModeSelect(BOOLEAN, BOOLEAN)
  \/ LoopRepeaterCheck(BOOLEAN, BOOLEAN)
  \/ UplinkUp
  \/ UplinkDown
  \/ Setup(BOOLEAN, BOOLEAN, BOOLEAN)

SpecPersist == Init /\ [][NextPersist]_vars

WriteFailed == last.saved /\ ~last.written

\* C5: after every mode change that succeeded, the degraded Repeater request
\* included, and whose write did not fail, the persisted configuration equals
\* the one in memory.
C5_TransitionPersistsConfig ==
  (last.op \in ModeOps /\ last.req \in APModes
     /\ last.brought \in {"ok", "none", "nouplink"} /\ ~WriteFailed)
    => configFile = ConfigJson(apConfig)

\* Requests for Normal and Off with every kind of ssid, password and channel.
NextConfig ==
  \/ ApConfigPost({AP_MODE_OFF, AP_MODE_NORMAL}, SsidInputs, {"", "short"}, {0, 6, 14},
                  {TRUE}, {TRUE})
  \/ UplinkUp
  \/ UplinkDown

SpecConfig == Init /\ [][NextConfig]_vars

\* C9: a configuration request with a channel outside 1..13, an ssid outside
\* 1..32 bytes or a non-empty password outside 8..63 bytes is rejected before
\* any driver call: no bring-up or teardown happens, the configuration stays
\* as it was and the answer is not a success.
C9_InvalidConfigIsRejected ==
  [][(last'.op = "config" /\ ~last'.valid)
       => (apConfig' = apConfig /\ wifi' = wifi /\ ~last'.drv /\ last'.code # 200)]_vars

\* The honeypot: mode changes between Off, Normal and Honeypot, and inbound
\* requests for the paths the responder registers.
NextHoneypot ==
  \/ ApConfigPost({AP_MODE_OFF, AP_MODE_NORMAL, AP_MODE_HONEYPOT}, {}, {}, {},
                  {TRUE}, {TRUE})
  \/ MenuModeSelect({TRUE}, {TRUE})
  \/ HoneypotRequest(HoneypotPaths, MaxMillis)
  \/ Setup({FALSE}, {TRUE}, {TRUE})

SpecHoneypot == Init /\ [][NextHoneypot]_vars

\* C7: a request that arrives while the mode is not Honeypot adds no record
\* to the honeypot log and gets no deceptive response.
C7_NoLoggingOutsideHoneypot ==
  [][(last'.op = "request" /\ apConfig.mode # AP_MODE_HONEYPOT)
       => (honeypot'.connections = honeypot.connections /\ last'.code = 404)]_vars

\* C8: a request for the mode the controller is in leaves the sniffing
\* session, the capture buffer and the honeypot log as they were.
C8_SameModeIsIdempotent ==
  [][(last'.op \in ModeOps /\ last'.req = apConfig.mode)
       => /\ honeypot'.connections = honeypot.connections
          /\ isSniffing' = isSniffing
          /\ currentSniffingClient' = currentSniffingClient
          /\ packetBuffer' = packetBuffer]_vars

\* The capture session under mode changes.
NextSniff ==
  \/ ApConfigPost({AP_MODE_OFF, AP_MODE_NORMAL}, {}, {}, {}, {TRUE}, {TRUE})
  \/ StationConnect
  \/ GetApUsers
  \/ PostUsersSniff({IpOf(m) : m \in MACs} \cup {0})
  \/ MenuSelectUser
  \/ MenuSniff
  \/ PromiscuousRx(MACs, {"DATA"}, MaxMillis)

SpecSniff == Init /\ [][NextSniff]_vars

\* C6: after a transition to Off no sniffing session is active and the
\* promiscuous hook is off.
C6_OffStopsSniffing ==
  (last.op \in ModeOps /\ last.req = AP_MODE_OFF /\ last.saved)
    => (~isSniffing /\ ~promiscuous)

\* The registry: stations come and go, the three block entry points, the
\* refreshes, and captured frames changing the clients' counters.
NextRegistry ==
  \/ ApConfigPost({AP_MODE_NORMAL}, {}, {}, {}, {TRUE}, {TRUE})
  \/ StationConnect
  \/ StationLeave
  \/ GetApUsers
  \/ LoopClientRefresh
  \/ PostUsersBlock({IpOf(m) : m \in MACs} \cup {0})
  \/ PostBlockMac({FormatMAC(1), LowerMAC(1)}, {TRUE})
  \/ MenuSelectUser
  \/ MenuBlockToggle({TRUE})

SpecRegistry == Init /\ [][NextRegistry]_vars

\* C10: a refresh that follows a block of an address, through any entry
\* point, finds the address blocked and flags the client if it is listed.
C10_BlockThenRefreshIsBlocked ==
  [][(last'.op = "refresh" /\ blockRequested # 0)
       => /\ IsMACBlocked(blockedMACs', blockRequested)
          /\ \A i \in 1 .. Len(apClients') :
               apClients'[i].mac = blockRequested => apClients'[i].blocked]_vars

\* C11: a station that connects with a blocked address is disconnected by the
\* admission hook at once, so the refresh that follows does not list it.
C11_BlockedStationIsNotListed ==
  [][(last.op = "staConnected" /\ IsMACBlocked(blockedMACs, last.target)
        /\ last'.op = "refresh")
       => \A i \in 1 .. Len(apClients') : apClients'[i].mac # last.target]_vars

\* C12: a block of an address that has a live station issues the disconnect
\* of that station as part of the block operation itself.
C12_BlockDisconnectsLiveStation ==
  (last.op = "block" /\ last.target \in Range(stations)) => last.drv

\* C13: the blocked set never holds the same address twice, whatever the
\* sequence of blocks, unblocks and refreshes through the three entry points.
C13_NoDuplicateBlockedAddress ==
  \A i, j \in 1 .. Len(blockedMACs) :
    i # j => AddressOf(blockedMACs[i]) # AddressOf(blockedMACs[j])

\* The blocked set a boot would load from the flash as it is now.
PersistedBlocked == LoadBlockedMACs(blockedFile, <<>>)

\* C14: after every block or unblock operation, no write having failed, the
\* persisted blocked set equals the one in memory.
C14_BlockedSetIsPersisted ==
  (last.op \in {"block", "unblock"}) => PersistedBlocked = blockedMACs

\* The addresses the entries of the blocked list denote.
BlockedAddresses(list) == {AddressOf(list[i]) : i \in 1 .. Len(list)}

\* C15: right after a refresh every listed client's blocked flag is true
\* exactly when its MAC is in the blocked set.
C15_RefreshReconcilesFlags ==
  (last.op = "refresh")
    => \A i \in 1 .. Len(apClients) :
         apClients[i].blocked <=> apClients[i].mac \in BlockedAddresses(blockedMACs)

\* The capture buffer filled past its capacity: one client sniffed, frames
\* from its address, refreshes in between.
NextCapture ==
  \/ ApConfigPost({AP_MODE_NORMAL}, {}, {}, {}, {TRUE}, {TRUE})
  \/ StationConnect
  \/ GetApUsers
  \/ PostUsersSniff({IpOf(1)})
  \/ PromiscuousRx({1}, {"DATA"}, MaxFrames)

SpecCapture == Init /\ [][NextCapture]_vars

FrameOps == {"frame", "frameOutOfRange"}

\* C16: the capture buffer never holds more than 20 records, and a captured
\* frame is appended at the end, the oldest record dropped when the buffer
\* was full, the others keeping their order.
C16_CaptureBufferIsBoundedFifo ==
  /\ [](Len(packetBuffer) <= MAX_PACKET_BUFFER)
  /\ [][(last'.op \in FrameOps)
         => /\ Len(packetBuffer') >= 1
            /\ packetBuffer'[Len(packetBuffer')].timestamp = millis
            /\ SubSeq(packetBuffer', 1, Len(packetBuffer') - 1) =
                 IF Len(packetBuffer) = MAX_PACKET_BUFFER
                   THEN Tail(packetBuffer) ELSE packetBuffer]_vars

\* Twenty-one frames were captured: the first record (timestamp 0) is gone,
\* the twenty latest remain.
C16_Witness ==
  /\ millis = MAX_PACKET_BUFFER + 1
  /\ Len(packetBuffer) = MAX_PACKET_BUFFER
  /\ packetBuffer[1].timestamp = 1
  /\ packetBuffer[MAX_PACKET_BUFFER].timestamp = MAX_PACKET_BUFFER

\* C17: a start of sniffing while a session is active fails and leaves the
\* session as it was: still active, on the same target.
C17_StartWhileActiveIsRefused ==
  [][(last'.op = "sniffStart" /\ isSniffing)
       => /\ last'.code # 200
          /\ isSniffing'
          /\ currentSniffingClient' = currentSniffingClient
          /\ currentSniffingMAC'.mac = currentSniffingMAC.mac]_vars

NextRead ==
  \/ ApConfigPost({AP_MODE_NORMAL}, {}, {}, {}, {TRUE}, {TRUE})
  \/ StationConnect
  \/ GetApUsers
  \/ PostUsersSniff({IpOf(1)})
  \/ PromiscuousRx({1}, {"DATA"}, MaxFrames)
  \/ GetSniffBuffer({1}, MaxFrames)

SpecRead == Init /\ [][NextRead]_vars

\* C19: a read of the capture buffer sees the buffer either as it was before
\* or as it is after each mutation, never something in between.
C19_ReadSeesWholeBuffer ==
  (last.op = "readBuffer") => last.seen.got \in {last.seen.before, last.seen.after}

\* The honeypot log filled past its capacity.
NextLog ==
  \/ ApConfigPost({AP_MODE_HONEYPOT}, {}, {}, {}, {TRUE}, {TRUE})
  \/ HoneypotRequest({"/login"}, MaxRequests)

SpecLog == Init /\ [][NextLog]_vars

\* C20: the honeypot log never holds more than 10 records, and a logged
\* request is stored last, the oldest record evicted when the log was full,
\* the others keeping their order.
C20_HoneypotLogIsBoundedFifo ==
  /\ [](Len(honeypot.connections) <= MAX_HONEYPOT_CONNECTIONS)
  /\ [][(last'.op = "request" /\ honeypot.routes)
         => /\ Len(honeypot'.connections) >= 1
            /\ honeypot'.connections[Len(honeypot'.connections)].timestamp = millis
            /\ SubSeq(honeypot'.connections, 1, Len(honeypot'.connections) - 1) =
                 IF Len(honeypot.connections) = MAX_HONEYPOT_CONNECTIONS
                   THEN Tail(honeypot.connections) ELSE honeypot.connections]_vars

\* Eleven requests were logged since the responder began: the record stamped
\* 0 is evicted, those stamped 1 to 10 remain.
C20_Witness ==
  /\ millis = MAX_HONEYPOT_CONNECTIONS + 1
  /\ Len(honeypot.connections) = MAX_HONEYPOT_CONNECTIONS
  /\ honeypot.connections[1].timestamp = 1
  /\ honeypot.connections[MAX_HONEYPOT_CONNECTIONS].timestamp = MAX_HONEYPOT_CONNECTIONS

\* C21: while the mode is Honeypot every request to the decoy adds exactly
\* one record to the log, and a submission to /login is answered with the
\* authentication failure whatever it carries.
C21_LoginAlwaysFailsAndIsLogged ==
  [][(last'.op = "request" /\ apConfig.mode = AP_MODE_HONEYPOT)
       => /\ Len(honeypot'.connections) >= 1
          /\ Cardinality({i \in 1 .. Len(honeypot'.connections) :
                            honeypot'.connections[i] \notin Range(honeypot.connections)}) = 1
          /\ honeypot'.connections[Len(honeypot'.connections)].timestamp = millis
          /\ honeypot'.connections[Len(honeypot'.connections)].url = "/login"
               => last'.code = 403]_vars

\* Two submissions to /login that differ in their credentials only, both
\* logged, the second one just answered with the failure.
C21_Witness ==
  /\ last.op = "request"
  /\ last.code = 403
  /\ apConfig.mode = AP_MODE_HONEYPOT
  /\ Len(honeypot.connections) = 2
  /\ honeypot.connections[1].url = "/login"
  /\ honeypot.connections[2].url = "/login"
  /\ honeypot.connections[1].data # honeypot.connections[2].data

\* Configurations of every size saved and loaded again: requests with a
\* short and with a very long ssid, and reboots.
NextRoundTrip ==
  \/ ApConfigPost({AP_MODE_OFF, AP_MODE_NORMAL}, {"Test", HugeSsid, FillingSsid},
                  {"12345678"}, {0, 6, 14}, {TRUE}, {TRUE})
  \/ Setup({FALSE}, BOOLEAN, {TRUE})

SpecRoundTrip == Init /\ [][NextRoundTrip]_vars

\* C22: the configuration the controller holds, saved and then loaded into
\* a process that starts from the defaults, is the same configuration.
C22_ConfigRoundTrip ==
  LoadConfiguration(SaveConfiguration(NoFile, apConfig, TRUE), DefaultAPConfig) = apConfig

C24_OpenIffPasswordEmpty ==
  ApUp(wifi) => ((wifi.ap.password = "") <=> (apConfig.password = ""))

\* Operations that name a client, on a list that stations join and leave.
NextUnknown ==
  \/ ApConfigPost({AP_MODE_NORMAL}, {}, {}, {}, {TRUE}, {TRUE})
  \/ StationConnect
  \/ StationLeave
  \/ GetApUsers
  \/ PostUsersBlock({IpOf(m) : m \in MACs} \cup {0})
  \/ PostUsersSniff({IpOf(m) : m \in MACs} \cup {0})
  \/ MenuSelectUser
  \/ MenuBlockToggle({TRUE})
  \/ MenuSniff

SpecUnknown == Init /\ [][NextUnknown]_vars

\* The operation just made named a client that is not in the list: a request
\* with an address no client has, or a menu action for a selected index past
\* the end of the list.
NamesUnknownClient ==
  \/ last'.op \in {"notFound", "menuNoUser"}
  \/ last'.op = "menuSniff" /\ selectedAPUser >= Len(apClients)

\* C25: an operation that names a client not in the current list is answered
\* NotFound and changes neither the blocked set, the client list, the
\* sniffing session nor the capture buffer.
C25_UnknownClientHasNoEffect ==
  [][NamesUnknownClient
       => /\ last'.op = "notFound" => last'.code = 404
          /\ UNCHANGED <<blockedMACs, apClients, isSniffing, currentSniffingClient,
                         currentSniffingMAC, promiscuous, packetBuffer>>]_vars

\* Boots on flash contents where either file may be missing: a save of the
\* configuration or of the blocked list can fail, and each is written by its
\* own requests.
NextBoot ==
  \/ ApConfigPost({AP_MODE_OFF, AP_MODE_NORMAL}, {"Test"}, {}, {6}, {TRUE}, BOOLEAN)
  \/ PostBlockMac({FormatMAC(1), FormatMAC(2)}, BOOLEAN)
  \/ Setup({FALSE}, {TRUE}, {TRUE})

SpecBoot == Init /\ [][NextBoot]_vars

\* C26: a boot that finds no configuration file starts with the default
\* configuration, mode Off and no access point; one that finds no blocked-set
\* file starts with an empty blocked set; and the boot goes on to load the
\* file that is there.
C26_MissingFileMeansDefaults ==
  [][(last'.op = "setup")
       => /\ ~configFile.exists
               => /\ apConfig' = DefaultAPConfig
                  /\ apConfig'.mode = AP_MODE_OFF
                  /\ ~ApUp(wifi')
                  /\ blockedFile.exists => blockedMACs' = blockedFile.blocked
          /\ ~blockedFile.exists
               => /\ blockedMACs' = <<>>
                  /\ configFile.exists => last'.req = configFile.ap.mode]_vars

\* A boot without a configuration file that loaded a blocked set.
C26_Witness ==
  /\ last.op = "setup"
  /\ ~configFile.exists
  /\ blockedFile.exists
  /\ blockedMACs # <<>>
  /\ apConfig = DefaultAPConfig

\* Sessions on a list that is refreshed while stations join and leave, with
\* frames of every station on the air.
NextSession ==
  \/ ApConfigPost({AP_MODE_NORMAL}, {}, {}, {}, {TRUE}, {TRUE})
  \/ StationConnect
  \/ StationLeave
  \/ GetApUsers
  \/ LoopClientRefresh
  \/ PostUsersSniff({IpOf(m) : m \in MACs})
  \/ PromiscuousRx(MACs, {"DATA"}, MaxMillis)

SpecSession == Init /\ [][NextSession]_vars

\* The steps of the frame hook, and the byte counters of the clients by
\* position in the list.
HookOps == {"frame", "frameOutOfRange", "frameIgnored"}

ByteCounters(list) == [i \in 1 .. Len(list) |-> list[i].totalBytes]

\* C27: the hook acts only on a frame whose source is the target of the
\* active session.  Any other frame, and any frame without a session, leaves
\* the buffer and every byte counter as they were; a frame of the target
\* appends one record of it and adds the frame's size to the counter of the
\* target's client and to no other.
C27_HookActsOnTargetFramesOnly ==
  [][(last'.op \in HookOps)
       => IF isSniffing /\ last'.target = currentSniffingMAC.mac
            THEN /\ Len(packetBuffer') >= 1
                 /\ packetBuffer' = PushPacket(packetBuffer, packetBuffer'[Len(packetBuffer')])
                 /\ packetBuffer'[Len(packetBuffer')].sourceMAC = FormatMAC(last'.target)
                 /\ Len(apClients') = Len(apClients)
                 /\ \E i \in 1 .. Len(apClients) : apClients[i].mac = currentSniffingMAC.mac
                 /\ \A i \in 1 .. Len(apClients) :
                      apClients'[i].totalBytes =
                        apClients[i].totalBytes
                          + (IF apClients[i].mac = currentSniffingMAC.mac
                               THEN packetBuffer'[Len(packetBuffer')].size ELSE 0)
            ELSE /\ packetBuffer' = packetBuffer
                 /\ ByteCounters(apClients') = ByteCounters(apClients)]_vars

\* C28: while a session is active and the hook can run, the client index of
\* the session is an index of the current client list.
C28_SessionIndexIsValid ==
  (isSniffing /\ promiscuous)
    => (currentSniffingClient >= 0 /\ currentSniffingClient < Len(apClients))

\* C29: while a session is active, the address the hook compares frames
\* against is the address of the client chosen at the start, whatever
\* refreshes have rebuilt the list since.
C29_TargetAddressIsStable ==
  isSniffing => PointedMACs(currentSniffingMAC) = {currentSniffingMAC.mac}

\* C30: a session that starts when none is active starts with captured
\* frames that hold no record with a source other than its target, so none
\* of the session before it.
C30_NewSessionStartsClean ==
  [][(last'.op = "sniffStart" /\ ~isSniffing)
       => \A i \in 1 .. Len(packetBuffer') :
            packetBuffer'[i].sourceMAC = FormatMAC(currentSniffingMAC'.mac)]_vars

\* C31: the byte counter of a client that stays connected never decreases,
\* whatever frames are captured and whatever refreshes rebuild the list.
C31_ByteCounterNeverDecreases ==
  [][\A i \in 1 .. Len(apClients), j \in 1 .. Len(apClients') :
       (/\ apClients[i].mac = apClients'[j].mac
        /\ apClients[i].mac \in Range(stations)
        /\ apClients[i].mac \in Range(stations'))
         => apClients'[j].totalBytes >= apClients[i].totalBytes]_vars

\* C32: after every mode change whose write did not fail, a failed bring-up
\* and a Repeater request without an uplink included, the persisted
\* configuration is the one in memory, and so is the persisted mode.
C32_ModeChangeLeavesFileInStep ==
  (last.op \in ModeOps /\ ~WriteFailed)
    => /\ configFile = ConfigJson(apConfig)
       /\ configFile.exists /\ configFile.ap.mode = apConfig.mode

\* C33: a write that fails rolls nothing back.  After a mode change whose
\* save failed the controller holds the requested mode and the file is the
\* record persisted before; after a block or unblock whose save failed the
\* blocked set holds the change and its file is the one persisted before.
C33_FailedWriteKeepsMemoryAndFile ==
  [][/\ (last'.op \in ModeOps /\ last'.saved /\ ~last'.written)
          => /\ configFile' = configFile
             /\ last'.req \in APModes => apConfig'.mode = last'.req
             /\ LoadConfiguration(configFile', DefaultAPConfig) =
                   LoadConfiguration(configFile, DefaultAPConfig)
     /\ (last'.op \in {"block", "unblock"} /\ blockedMACs' # blockedMACs /\ ~last'.written)
          => /\ blockedFile' = blockedFile
             /\ IsMACBlocked(blockedMACs', last'.target) <=> (last'.op = "block")
             /\ LoadBlockedMACs(blockedFile', <<>>) = LoadBlockedMACs(blockedFile, <<>>)]_vars

\* A failed save of a mode change on a device that has a record of another
\* mode, after a failed save of the blocked set.
C33_Witness ==
  /\ last.op \in ModeOps
  /\ WriteFailed
  /\ configFile.exists
  /\ configFile.ap.mode # apConfig.mode
  /\ blockedMACs # <<>>
  /\ ~blockedFile.exists

\* Honeypot requested on a device that reboots on the records it wrote, with
\* ssids of every length a request can carry.
NextHoneypotBoot ==
  \/ ApConfigPost({AP_MODE_OFF, AP_MODE_HONEYPOT}, {"Test", FillingSsid}, {}, {6},
                  BOOLEAN, {TRUE})
  \/ Setup({FALSE}, BOOLEAN, {TRUE})

SpecHoneypotBoot == Init /\ [][NextHoneypotBoot]_vars

NextRepeater ==
  \/ ApConfigPost({AP_MODE_OFF, AP_MODE_REPEATER}, {}, {}, {}, BOOLEAN, {TRUE})
  \/ LoopRepeaterCheck(BOOLEAN, {TRUE})
  \/ LoopRepeaterReconnect(UplinkSubnets)
  \/ UplinkJoin(UplinkSubnets)
  \/ UplinkDown
  \/ Setup(BOOLEAN, BOOLEAN, {TRUE})

SpecRepeater == Init /\ [][NextRepeater]_vars

\* C35: after Repeater has been brought up on an uplink, the address block of
\* the AP interface is not the subnet of the uplink.
C35_RepeaterSubnetDiffersFromUplink ==
  (last.req = AP_MODE_REPEATER /\ last.brought = "ok" /\ wifi.uplink)
    => wifi.ap.subnet # wifi.net

\* C36: whenever an access point is up, it hides its ssid exactly when the
\* mode is Hidden.
C36_HiddenIffModeHidden ==
  ApUp(wifi) => (wifi.ap.hidden <=> (apConfig.mode = AP_MODE_HIDDEN))

\* Sessions started and stopped by request and from the menu, for clients
\* in the list and not in it, with mode changes in between.
NextHook ==
  \/ ApConfigPost({AP_MODE_OFF, AP_MODE_NORMAL}, {}, {}, {}, {TRUE}, {TRUE})
  \/ StationConnect
  \/ GetApUsers
  \/ PostUsersSniff({IpOf(m) : m \in MACs} \cup {0})
  \/ MenuSelectUser
  \/ MenuSniff

SpecHook == Init /\ [][NextHook]_vars

\* C37: between operations, the promiscuous hook is enabled exactly when a
\* sniffing session is active.
C37_HookEnabledIffSessionActive ==
  promiscuous <=> isSniffing

\* A session, with its hook, that a mode change found running and left
\* running, and a start from the menu for an index past the end of the list
\* that changed neither.
C37_Witness ==
  \/ /\ last.op \in ModeOps
     /\ isSniffing
     /\ promiscuous
     /\ apConfig.mode = AP_MODE_OFF
  \/ /\ last.op = "menuSniff"
     /\ selectedAPUser >= Len(apClients)
     /\ ~isSniffing
     /\ ~promiscuous

\* The main loop keeps running: each branch of its repeater check is taken
\* once its condition has held for the period of the check.
SpecRepeaterLive ==
  /\ SpecRepeater
  /\ WF_vars(LoopRepeaterReconnect(UplinkSubnets))
  /\ WF_vars(LoopRepeaterCheck(BOOLEAN, {TRUE}))

\* C38: while the mode is Repeater, a lost uplink leads to a reconnect
\* attempt by the loop, and an uplink with the radio out of station+AP
\* operation leads to a re-run of the bring-up by the loop, unless the
\* condition ends before the check comes round.
C38_LoopKeepsRepeaterAlive ==
  /\ (apConfig.mode = AP_MODE_REPEATER /\ ~wifi.uplink)
       ~> (\/ last.op = "loopReconnect"
           \/ apConfig.mode # AP_MODE_REPEATER
           \/ wifi.uplink)
  /\ (apConfig.mode = AP_MODE_REPEATER /\ wifi.uplink /\ wifi.mode # "AP_STA")
       ~> (\/ last.op = "loopRepeater"
           \/ apConfig.mode # AP_MODE_REPEATER
           \/ ~wifi.uplink
           \/ wifi.mode = "AP_STA")

\* The loop re-ran the bring-up and the repeater is up again.
C38_Witness ==
  /\ last.op = "loopRepeater"
  /\ last.brought = "ok"
  /\ apConfig.mode = AP_MODE_REPEATER
  /\ wifi.uplink
  /\ wifi.mode = "AP_STA"

\* Reboots on every mode the controller has persisted, with a driver whose
\* bring-ups succeed.
NextReboot ==
  \/ ApConfigPost(APModes, {}, {}, {}, {TRUE}, {TRUE})
  \/ UplinkUp
  \/ UplinkDown
  \/ Setup(BOOLEAN, {TRUE}, {TRUE})

SpecReboot == Init /\ [][NextReboot]_vars

\* C39: a boot on a persisted mode other than Off ends with that mode
\* reported and an access point brought up for it; a boot on mode Off, or on
\* no record, ends with no access point.
C39_BootRestoresPersistedMode ==
  [][(last'.op = "setup")
       => IF configFile.exists /\ configFile.ap.mode # AP_MODE_OFF
            THEN /\ StatusMode' = configFile.ap.mode
                 /\ ApUp(wifi')
                 /\ last'.brought = "ok"
            ELSE ~ApUp(wifi')]_vars

====
